---- MODULE Spec2Model ----
(***************************************************************************)
(* The typing context of numba/typing.py: a registry of function and       *)
(* attribute templates, the type lattice, and overload resolution over a   *)
(* template's case list (apply_case, _find_compatible_definitions,         *)
(* _select_best_definition, _select_best_upcast, _select_best_downcast).   *)
(*                                                                         *)
(* Python values are modelled as follows.  A type is a string.  A          *)
(* Signature value is a record [return_type, args]; a Signature object, as *)
(* the ranking sees it, is a record [return_type, args, id] with id its    *)
(* address.  A template is a record [name, key, cases, generic, list],     *)
(* list naming the list object that holds its cases (the operator          *)
(* templates share the list of their base class); a template class without *)
(* a `cases` attribute has cases = <<>> (getattr(self, 'cases', None) is   *)
(* falsy in both situations).  The outcome of a call is a record: a        *)
(* returned Signature, a returned type, a returned None, or a raised       *)
(* exception.                                                              *)
(*                                                                         *)
(* The code is Python 2 (sys.maxint): assert statements are executed, and  *)
(* min() over (sum, case) tuples orders two Signature objects of equal sum *)
(* and different parameters by their addresses.  The addresses are fixed   *)
(* when the classes are created and are any the allocator may give: each   *)
(* list of cases has an order of its own.  id_order is the part of that    *)
(* order that calls have observed so far; a call that observes more draws  *)
(* it from every order that agrees with id_order.                          *)
(***************************************************************************)
EXTENDS Integers, Sequences, FiniteSets, TLC

VARIABLES type_lattice, functions, attributes, id_order, result, memo

vars == <<type_lattice, functions, attributes, id_order, result, memo>>

(***************************************************************************)
(* Bounds of the model.                                                    *)
(***************************************************************************)
\* Lattice entries range over -MaxDist..MaxDist, zero excluded: a positive
\* entry is a promotion, a negative one a demotion, and distance 0 belongs
\* to equal types.
MaxDist == 2

\* sys.maxint, the initial value of downdist (a 32-bit build).
maxint == 2147483647

(***************************************************************************)
(* The type catalog (numba/types.py): opaque type values, the flag         *)
(* is_parametric, and the getitem/setitem capabilities of arrays and       *)
(* tuples.                                                                 *)
(***************************************************************************)
int32 == "int32"
int64 == "int64"
float32 == "float32"
float64 == "float64"
boolean == "boolean"
none == "none"
intp == "intp"
range_type == "range_type"
range_state32_type == "range_state32"
range_state64_type == "range_state64"
range_iter32_type == "range_iter32"
range_iter64_type == "range_iter64"
array_f64_1d == "array(float64, 1d)"
array_i32_2d == "array(int32, 2d)"
unituple_intp_1 == "UniTuple(intp x 1)"
unituple_intp_2 == "UniTuple(intp x 2)"

\* The class of a type value, type(value): the category of a parametric type.
ArrayClass == "Array"
UniTupleClass == "UniTuple"

ArrayTypes == {array_f64_1d, array_i32_2d}
UniTupleTypes == {unituple_intp_1, unituple_intp_2}

is_parametric(t) == t \in ArrayTypes \cup UniTupleTypes

TypeOf(t) ==
    IF t \in ArrayTypes THEN ArrayClass
    ELSE IF t \in UniTupleTypes THEN UniTupleClass
    ELSE "Type"

dtype(t) ==
    IF t = array_f64_1d THEN float64
    ELSE IF t = array_i32_2d THEN int32
    ELSE intp

ndim(t) == IF t = array_i32_2d THEN 2 ELSE 1

UniTuple(dt, n) == IF n = 1 THEN unituple_intp_1 ELSE unituple_intp_2

\* hasattr(base, "getitem") and base.getitem() -> (retty, indty)
has_getitem(t) == t \in ArrayTypes \cup UniTupleTypes

getitem(t) ==
    IF t \in ArrayTypes /\ ndim(t) > 1
    THEN <<dtype(t), UniTuple(intp, ndim(t))>>
    ELSE <<dtype(t), intp>>

\* hasattr(base, "setitem") and base.setitem() -> (indty, valty)
has_setitem(t) == t \in ArrayTypes

setitem(t) ==
    IF ndim(t) > 1
    THEN <<UniTuple(intp, ndim(t)), dtype(t)>>
    ELSE <<intp, dtype(t)>>

(***************************************************************************)
(* Signature and outcomes.                                                 *)
(***************************************************************************)
signature(return_type, args) == [return_type |-> return_type, args |-> args]

NoSig == signature("-", <<>>)

\* Signature.__eq__: equality on the parameter tuple only.
SigEq(s1, s2) == s1.args = s2.args

\* A returned Signature, a returned type, a returned None, and a raised
\* exception with its arguments (the Signatures or the names it carries).
Ret(sig) == [kind |-> "signature",
             sig |-> signature(sig.return_type, sig.args),
             type |-> "-", err |-> "-", named |-> <<>>, about |-> <<>>]
RetType(t) == [kind |-> "type", sig |-> NoSig, type |-> t, err |-> "-",
               named |-> <<>>, about |-> <<>>]
RetNone == [kind |-> "None", sig |-> NoSig, type |-> "-", err |-> "-",
            named |-> <<>>, about |-> <<>>]
Raise(err, named, about) ==
    [kind |-> "raise", sig |-> NoSig, type |-> "-", err |-> err,
     named |-> [i \in 1..Len(named) |->
                   signature(named[i].return_type, named[i].args)],
     about |-> about]

(***************************************************************************)
(* Context.type_distance.                                                  *)
(***************************************************************************)
\* dict.get: the entry, or None (found = FALSE) when the pair has no entry.
NoPath == [found |-> FALSE, d |-> 0]
Dist(d) == [found |-> TRUE, d |-> d]

\* A variant without the rule for equal types: the table alone decides.
type_distance_table_only(fromty, toty) ==
    IF <<fromty, toty>> \in DOMAIN type_lattice
    THEN Dist(type_lattice[<<fromty, toty>>])
    ELSE NoPath

type_distance(fromty, toty) ==
    IF fromty = toty THEN Dist(0)
    ELSE IF <<fromty, toty>> \in DOMAIN type_lattice
         THEN Dist(type_lattice[<<fromty, toty>>])
         ELSE NoPath

(***************************************************************************)
(* FunctionTemplate: matching one case.                                    *)
(***************************************************************************)
_uses_downcast(dists) == \E i \in 1..Len(dists) : dists[i] < 0

RECURSIVE SumDowncastFrom(_, _, _)
SumDowncastFrom(dists, i, c) ==
    IF i > Len(dists) THEN c
    ELSE SumDowncastFrom(dists, i + 1,
                         IF dists[i] < 0 THEN c + (0 - dists[i]) ELSE c)

\* A variant that counts the promotions of the tuple too.
RECURSIVE SumAbsFrom(_, _, _)
SumAbsFrom(dists, i, c) ==
    IF i > Len(dists) THEN c
    ELSE SumAbsFrom(dists, i + 1,
                    IF dists[i] < 0 THEN c + (0 - dists[i]) ELSE c + dists[i])

_sum_downcast_all(dists) == SumAbsFrom(dists, 1, 0)

_sum_downcast(dists) == SumDowncastFrom(dists, 1, 0)

\* The builtin sum() over a distance tuple.
RECURSIVE SumFrom(_, _, _)
SumFrom(dists, i, c) ==
    IF i > Len(dists) THEN c ELSE SumFrom(dists, i + 1, c + dists[i])

sum(dists) == SumFrom(dists, 1, 0)

\* A variant without the assertion on kws: keyword arguments are ignored.
apply_case_ignoring_kws(case, args, kws) ==
    IF Len(case.args) # Len(args)
    THEN [status |-> "None", dists |-> <<>>]
    ELSE IF \E i \in 1..Len(args) :
                ~type_distance(args[i], case.args[i]).found
         THEN [status |-> "None", dists |-> <<>>]
    ELSE [status |-> "dists",
          dists |-> [i \in 1..Len(args) |->
                        type_distance(args[i], case.args[i]).d]]

\* status: "AssertionError" (kws given), "None" (no match) or "dists".
apply_case(case, args, kws) ==
    IF kws # {} THEN [status |-> "AssertionError", dists |-> <<>>]
    ELSE IF Len(case.args) # Len(args)
         THEN [status |-> "None", dists |-> <<>>]
    ELSE IF \E i \in 1..Len(args) :
                ~type_distance(args[i], case.args[i]).found
         THEN [status |-> "None", dists |-> <<>>]
    ELSE [status |-> "dists",
          dists |-> [i \in 1..Len(args) |->
                        type_distance(args[i], case.args[i]).d]]

\* One pass over the cases in order.  An upcast entry is the tuple
\* (sum(dists), case), a downcast entry the tuple (dists, case); id is the
\* identity of the case object (its position in the case list).
RECURSIVE FindFrom(_, _, _, _, _, _)
FindFrom(cases, args, kws, i, upcast, downcast) ==
    IF i > Len(cases)
    THEN [raised |-> FALSE, upcast |-> upcast, downcast |-> downcast]
    ELSE LET dists == apply_case(cases[i], args, kws) IN
         IF dists.status = "AssertionError"
         THEN [raised |-> TRUE, upcast |-> <<>>, downcast |-> <<>>]
         ELSE IF dists.status = "None"
         THEN FindFrom(cases, args, kws, i + 1, upcast, downcast)
         ELSE IF _uses_downcast(dists.dists)
         THEN FindFrom(cases, args, kws, i + 1, upcast,
                       Append(downcast, [dists |-> dists.dists,
                                         case |-> cases[i]]))
         ELSE FindFrom(cases, args, kws, i + 1,
                       Append(upcast, [sum |-> sum(dists.dists),
                                       case |-> cases[i]]),
                       downcast)

_find_compatible_definitions(cases, args, kws) ==
    FindFrom(cases, args, kws, 1, <<>>, <<>>)

(***************************************************************************)
(* Ordering of the (sum, case) tuples as Python 2 compares them.           *)
(***************************************************************************)
\* Two Signature objects with different parameter tuples have no ordering
\* of their own: the interpreter orders them by address.
ObjLess(s1, s2) == s1.id < s2.id

TupleEq(a, b) ==
    a.sum = b.sum /\ (a.case.id = b.case.id \/ SigEq(a.case, b.case))

TupleLess(a, b) ==
    IF a.sum # b.sum THEN a.sum < b.sum
    ELSE IF a.case.id = b.case.id \/ SigEq(a.case, b.case) THEN FALSE
    ELSE ObjLess(a.case, b.case)

\* min(): a scan that keeps the first least element.
RECURSIVE MinFrom(_, _, _)
MinFrom(seq, i, best) ==
    IF i > Len(seq) THEN best
    ELSE MinFrom(seq, i + 1, IF TupleLess(seq[i], best) THEN seq[i] ELSE best)

min(seq) == MinFrom(seq, 2, seq[1])

\* list.remove(x): drops the first element equal to x.
remove(seq, x) ==
    LET i == CHOOSE k \in 1..Len(seq) :
                 /\ TupleEq(seq[k], x)
                 /\ \A j \in 1..(k - 1) : ~TupleEq(seq[j], x)
    IN SubSeq(seq, 1, i - 1) \o SubSeq(seq, i + 1, Len(seq))

(***************************************************************************)
(* FunctionTemplate: selection.                                            *)
(***************************************************************************)
\* A variant that compares the two least sums with <=: on a tie the first
\* one wins.
_select_best_upcast_first_wins(upcast) ==
    IF Len(upcast) = 1 THEN Ret(upcast[1].case)
    ELSE LET first == min(upcast)
             rest == remove(upcast, first)
             second == min(rest)
         IN IF first.sum <= second.sum THEN Ret(first.case)
            ELSE Raise("TypeError", <<first.case, second.case>>,
                       <<"Ambiguous overloading">>)

_select_best_upcast(upcast) ==
    IF Len(upcast) = 1 THEN Ret(upcast[1].case)
    ELSE LET first == min(upcast)
             rest == remove(upcast, first)
             second == min(rest)
         IN IF first.sum < second.sum THEN Ret(first.case)
            ELSE Raise("TypeError", <<first.case, second.case>>,
                       <<"Ambiguous overloading">>)

RECURSIVE LeastsFrom(_, _, _, _)
LeastsFrom(downcast, i, downdist, leasts) ==
    IF i > Len(downcast) THEN leasts
    ELSE LET n == _sum_downcast(downcast[i].dists) IN
         IF n < downdist
         THEN LeastsFrom(downcast, i + 1, n, <<downcast[i]>>)
         ELSE IF n = downdist
         THEN LeastsFrom(downcast, i + 1, downdist,
                         Append(leasts, downcast[i]))
         ELSE LeastsFrom(downcast, i + 1, downdist, leasts)

_select_best_downcast(downcast) ==
    IF Len(downcast) = 1 THEN Ret(downcast[1].case)
    ELSE LET leasts == LeastsFrom(downcast, 1, maxint, <<>>) IN
         IF Len(leasts) = 1 THEN Ret(leasts[1].case)
         ELSE Raise("TypeError",
                    [i \in 1..Len(leasts) |-> leasts[i].case],
                    <<"Ambiguous overloading">>)

\* A variant that looks at the downcast list first.
_select_best_definition_downcast_first(upcast, downcast, args, kws, cases) ==
    IF downcast # <<>> THEN _select_best_downcast(downcast)
    ELSE IF upcast # <<>> THEN _select_best_upcast(upcast)
    ELSE RetNone

\* Falls off the end, returning None, when neither list has an entry.
_select_best_definition(upcast, downcast, args, kws, cases) ==
    IF upcast # <<>> THEN _select_best_upcast(upcast)
    ELSE IF downcast # <<>> THEN _select_best_downcast(downcast)
    ELSE RetNone

(***************************************************************************)
(* The generic resolvers.                                                  *)
(***************************************************************************)
GetItem_generic(args, kws) ==
    IF kws # {} THEN Raise("AssertionError", <<>>, <<>>)
    ELSE IF Len(args) = 0 THEN Raise("IndexError", <<>>, <<>>)
    ELSE LET base == args[1] IN
         IF has_getitem(base)
         THEN LET case == signature(getitem(base)[1],
                                    <<base, getitem(base)[2]>>)
                  m == apply_case(case, args, kws)
              IN IF m.status = "dists" THEN Ret(case) ELSE RetNone
         ELSE Raise("NotImplementedError", <<>>, <<>>)

SetItem_generic(args, kws) ==
    IF kws # {} THEN Raise("AssertionError", <<>>, <<>>)
    ELSE IF Len(args) # 3 THEN Raise("ValueError", <<>>, <<>>)
    ELSE LET base == args[1] IN
         IF has_setitem(base)
         THEN Ret(signature(none, <<base, setitem(base)[1],
                                    setitem(base)[2]>>))
         ELSE Raise("NotImplementedError", <<>>, <<>>)

\* A variant that ranks in place: the least upcast candidate is removed
\* from the template's case list instead of from the upcast list.
apply_ranking_in_place(ft, args, kws) ==
    IF ft.cases # <<>>
    THEN LET found == _find_compatible_definitions(ft.cases, args, kws) IN
         [out |-> IF found.raised THEN Raise("AssertionError", <<>>, <<>>)
                  ELSE _select_best_definition(found.upcast, found.downcast,
                                               args, kws, ft.cases),
          cases |-> IF ~found.raised /\ Len(found.upcast) > 1
                    THEN LET i == CHOOSE k \in 1..Len(ft.cases) :
                                      ft.cases[k].id
                                      = min(found.upcast).case.id
                         IN
                         SubSeq(ft.cases, 1, i - 1)
                         \o SubSeq(ft.cases, i + 1, Len(ft.cases))
                    ELSE ft.cases]
    ELSE [out |-> IF ft.generic = "GetItem" THEN GetItem_generic(args, kws)
                  ELSE IF ft.generic = "SetItem"
                       THEN SetItem_generic(args, kws)
                  ELSE Raise("NotImplementedError", <<>>, <<>>),
          cases |-> ft.cases]

\* The outcome of the call and the template's case list after it: the
\* ranking works on the fresh upcast and downcast lists, so the case list
\* is left as it was.
apply(ft, args, kws) ==
    IF ft.cases # <<>>
    THEN LET found == _find_compatible_definitions(ft.cases, args, kws) IN
         [out |-> IF found.raised THEN Raise("AssertionError", <<>>, <<>>)
                  ELSE _select_best_definition(found.upcast, found.downcast,
                                               args, kws, ft.cases),
          cases |-> ft.cases]
    ELSE [out |-> IF ft.generic = "GetItem" THEN GetItem_generic(args, kws)
                  ELSE IF ft.generic = "SetItem"
                       THEN SetItem_generic(args, kws)
                  ELSE Raise("NotImplementedError", <<>>, <<>>),
          cases |-> ft.cases]

(***************************************************************************)
(* The builtin templates, in the order the decorators collect them.        *)
(***************************************************************************)
FunctionTemplate(name, key, cases, generic, list) ==
    [name |-> name, key |-> key, cases |-> cases, generic |-> generic,
     list |-> list]

Range ==
    FunctionTemplate("Range", range_type,
        << signature(range_state32_type, <<int32>>),
           signature(range_state32_type, <<int32, int32>>),
           signature(range_state64_type, <<int64>>),
           signature(range_state64_type, <<int64, int64>>) >>, "none", "Range")

GetIter ==
    FunctionTemplate("GetIter", "getiter",
        << signature(range_iter32_type, <<range_state32_type>>),
           signature(range_iter64_type, <<range_state64_type>>) >>, "none", "GetIter")

IterNext ==
    FunctionTemplate("IterNext", "iternext",
        << signature(int32, <<range_iter32_type>>),
           signature(int64, <<range_iter64_type>>) >>, "none", "IterNext")

IterValid ==
    FunctionTemplate("IterValid", "itervalid",
        << signature(boolean, <<range_iter32_type>>),
           signature(boolean, <<range_iter64_type>>) >>, "none", "IterValid")

BinOp_cases ==
    << signature(int32, <<int32, int32>>),
       signature(int64, <<int64, int64>>),
       signature(float32, <<float32, float32>>),
       signature(float64, <<float64, float64>>) >>

BinOpAdd == FunctionTemplate("BinOpAdd", "+", BinOp_cases, "none",
                            "BinOp")
BinOpSub == FunctionTemplate("BinOpSub", "-", BinOp_cases, "none",
                            "BinOp")
BinOpMul == FunctionTemplate("BinOpMul", "*", BinOp_cases, "none",
                            "BinOp")
BinOpDiv == FunctionTemplate("BinOpDiv", "/?", BinOp_cases, "none",
                            "BinOp")

CmpOp_cases ==
    << signature(boolean, <<int32, int32>>),
       signature(boolean, <<int64, int64>>),
       signature(boolean, <<float32, float32>>),
       signature(boolean, <<float64, float64>>) >>

CmpOpLt == FunctionTemplate("CmpOpLt", "<", CmpOp_cases, "none",
                            "CmpOp")
CmpOpLe == FunctionTemplate("CmpOpLe", "<=", CmpOp_cases, "none",
                            "CmpOp")
CmpOpGt == FunctionTemplate("CmpOpGt", ">", CmpOp_cases, "none",
                            "CmpOp")
CmpOpGe == FunctionTemplate("CmpOpGe", ">=", CmpOp_cases, "none",
                            "CmpOp")
CmpOpEq == FunctionTemplate("CmpOpEq", "==", CmpOp_cases, "none",
                            "CmpOp")
CmpOpNe == FunctionTemplate("CmpOpNe", "!=", CmpOp_cases, "none",
                            "CmpOp")

GetItem == FunctionTemplate("GetItem", "getitem", <<>>, "GetItem", "-")
SetItem == FunctionTemplate("SetItem", "setitem", <<>>, "SetItem", "-")

BUILTINS ==
    << Range, GetIter, IterNext, IterValid,
       BinOpAdd, BinOpSub, BinOpMul, BinOpDiv,
       CmpOpLt, CmpOpLe, CmpOpGt, CmpOpGe, CmpOpEq, CmpOpNe,
       GetItem, SetItem >>

\* An attribute template: its resolve_<attr> methods, by attribute name.
AttributeTemplate(name, key, handlers) ==
    [name |-> name, key |-> key, handlers |-> handlers]

ArrayAttribute == AttributeTemplate("ArrayAttribute", ArrayClass, {"shape"})

BUILTIN_ATTRS == << ArrayAttribute >>

\* What fn(value) returns for the method resolve_<attr>.
resolve_attr(attr, value) ==
    IF attr = "shape" THEN UniTuple(intp, ndim(value))
    ELSE IF attr = "dtype" THEN dtype(value)
    ELSE intp

\* AttributeTemplate.resolve
resolve(at, value, attr) ==
    IF attr \notin at.handlers
    THEN Raise("NotImplementedError", <<>>, <<value, attr>>)
    ELSE RetType(resolve_attr(attr, value))

(***************************************************************************)
(* Context: the registries.  A registry is a function whose domain is the  *)
(* set of registered keys.                                                 *)
(***************************************************************************)
Empty == [k \in {} |-> 0]

\* A variant without the assertion: a second template replaces the first.
insert_function_overwriting(fns, ft) ==
    [raised |-> FALSE, functions |-> (ft.key :> ft) @@ fns]

\* self.functions after the call and whether the assertion failed.
insert_function(fns, ft) ==
    IF ft.key \in DOMAIN fns
    THEN [raised |-> TRUE, functions |-> fns]
    ELSE [raised |-> FALSE, functions |-> (ft.key :> ft) @@ fns]

\* self.attributes after the call and whether the assertion failed: the
\* assertion looks the key up in self.functions.
insert_attributes(fns, attrs, at) ==
    IF at.key \in DOMAIN fns
    THEN [raised |-> TRUE, attributes |-> attrs]
    ELSE [raised |-> FALSE, attributes |-> (at.key :> at) @@ attrs]

RECURSIVE LoadFunctions(_, _)
LoadFunctions(i, fns) ==
    IF i > Len(BUILTINS) THEN [raised |-> FALSE, functions |-> fns]
    ELSE LET r == insert_function(fns, BUILTINS[i]) IN
         IF r.raised THEN r ELSE LoadFunctions(i + 1, r.functions)

RECURSIVE LoadAttributes(_, _, _)
LoadAttributes(i, fns, attrs) ==
    IF i > Len(BUILTIN_ATTRS) THEN [raised |-> FALSE, attributes |-> attrs]
    ELSE LET r == insert_attributes(fns, attrs, BUILTIN_ATTRS[i]) IN
         IF r.raised THEN r ELSE LoadAttributes(i + 1, fns, r.attributes)

\* Context.load_builtins on the empty registries of __init__.
load_builtins ==
    LET f == LoadFunctions(1, Empty)
        a == LoadAttributes(1, f.functions, Empty)
    IN [raised |-> f.raised \/ a.raised,
        functions |-> f.functions, attributes |-> a.attributes]

\* The outcome and self.functions after the call.  fns is self.functions
\* with the case objects of the templates at their addresses.
resolve_function_type(fns, func, args, kws) ==
    IF func \notin DOMAIN fns
    THEN [out |-> Raise("KeyError", <<>>, <<func>>), functions |-> fns]
    ELSE LET r == apply(fns[func], args, kws) IN
         [out |-> r.out,
          functions |-> [fns EXCEPT ![func].cases = r.cases]]

\* A variant that looks a parametric type up by its category first.
resolve_getattr_category_first(value, attr) ==
    IF is_parametric(value) /\ TypeOf(value) \in DOMAIN attributes
    THEN resolve(attributes[TypeOf(value)], value, attr)
    ELSE IF value \in DOMAIN attributes
         THEN resolve(attributes[value], value, attr)
         ELSE Raise("KeyError", <<>>, <<value>>)

resolve_getattr(value, attr) ==
    IF value \in DOMAIN attributes
    THEN resolve(attributes[value], value, attr)
    ELSE IF is_parametric(value)
         THEN IF TypeOf(value) \in DOMAIN attributes
              THEN resolve(attributes[TypeOf(value)], value, attr)
              ELSE Raise("KeyError", <<>>, <<TypeOf(value)>>)
         ELSE Raise("KeyError", <<>>, <<value>>)

resolve_setitem(fns, target, index, value) ==
    resolve_function_type(fns, "setitem", <<target, index, value>>, {})

(***************************************************************************)
(* The state machine.  result is the last operation with its inputs and    *)
(* its outcome; memo is an earlier resolve call, remembered until the next *)
(* successful registration.                                                *)
(***************************************************************************)
Op(op, key, args, kws, attr, tmpl, out) ==
    [op |-> op, key |-> key, args |-> args, kws |-> kws, attr |-> attr,
     tmpl |-> tmpl, out |-> out]

NoOp == Op("init", "-", <<>>, {}, "-", "-", RetNone)

LatticeVals == ((0 - MaxDist)..MaxDist) \ {0}

\* Every table with entries for some of the given pairs; the one without
\* entries stands for a Context built without a table of its own.
Lattices(pairs) == UNION {[D -> LatticeVals] : D \in SUBSET pairs}

\* types.type_lattice, the table a Context falls back on: promotion from
\* int32 to int64 at cost 1, and the demotion back.
default_type_lattice ==
    (<<int32, int64>> :> 1) @@ (<<int64, int32>> :> (0 - 1))

\* Context.__init__ with the lattice given, or with the default one when
\* the argument is falsy (None or a table without entries), followed by
\* load_builtins.  No call has observed an address yet.
InitContext(lattices) ==
    /\ \E given \in lattices :
           type_lattice = IF DOMAIN given = {} THEN default_type_lattice
                          ELSE given
    /\ id_order = {}
    /\ ~load_builtins.raised
    /\ functions = load_builtins.functions
    /\ attributes = load_builtins.attributes
    /\ result = NoOp
    /\ memo = NoOp

(***************************************************************************)
(* The addresses of the case objects.  id_order holds a triple             *)
(* <<list, i, j>> when a call has seen the object at position i of the     *)
(* case list `list` at a lower address than the one at position j.         *)
(***************************************************************************)
\* The case list as objects at the given addresses.
Objects(cases, ids) ==
    [i \in 1..Len(cases) |->
        [return_type |-> cases[i].return_type, args |-> cases[i].args,
         id |-> ids[i]]]

\* The case list as values.
Values(cases) ==
    [i \in 1..Len(cases) |-> signature(cases[i].return_type, cases[i].args)]

InOrder(n) == [i \in 1..n |-> i]

\* Every way of laying n objects out in memory, as the rank of each.
Perms(n) ==
    {ids \in [1..n -> 1..n] :
        \A i \in 1..n : \A j \in 1..n : i # j => ids[i] # ids[j]}

\* The pairs of positions in the case list whose objects the ranking of
\* this call may compare by address: upcast candidates of equal sum and
\* different parameters.
Compared(cases, args, kws) ==
    LET found == _find_compatible_definitions(
                     Objects(cases, InOrder(Len(cases))), args, kws)
        up == found.upcast
    IN IF found.raised THEN {}
       ELSE {<<up[k].case.id, up[l].case.id>> :
                <<k, l>> \in {x \in (1..Len(up)) \X (1..Len(up)) :
                                /\ x[1] # x[2]
                                /\ up[x[1]].sum = up[x[2]].sum
                                /\ ~SigEq(up[x[1]].case, up[x[2]].case)}}

\* The addresses a call of func may find the cases of its template at: any
\* layout that agrees with what earlier calls observed.  A call that
\* compares no addresses is given the cases in list order.
Addresses(func, args, kws) ==
    IF func \notin DOMAIN functions THEN {<<>>}
    ELSE LET ft == functions[func] IN
         IF Compared(ft.cases, args, kws) = {}
         THEN {InOrder(Len(ft.cases))}
         ELSE {ids \in Perms(Len(ft.cases)) :
                  \A t \in id_order :
                      t[1] = ft.list => ids[t[2]] < ids[t[3]]}

\* What the call has observed of the order, added to what was known.
Observe(func, args, kws, ids) ==
    IF func \notin DOMAIN functions THEN id_order
    ELSE LET ft == functions[func] IN
         id_order \cup {<<ft.list, c[1], c[2]>> :
                           c \in {x \in Compared(ft.cases, args, kws) :
                                     ids[x[1]] < ids[x[2]]}}

\* self.functions with the cases of func's template at the given addresses.
Located(func, ids) ==
    IF func \notin DOMAIN functions THEN functions
    ELSE [functions EXCEPT ![func].cases = Objects(functions[func].cases, ids)]

\* self.functions with every case list as values again.
Unlocated(fns) ==
    [k \in DOMAIN fns |-> [fns[k] EXCEPT !.cases = Values(fns[k].cases)]]

ResolveOps == {"resolve_function_type", "resolve_getattr", "resolve_setitem"}

\* The observer: at a resolve call it may replace the remembered query by
\* the one asked just before.
Remember(remember) ==
    memo' \in (IF remember /\ result.op \in ResolveOps
               THEN {memo, result} ELSE {memo})

CallInsertFunction(templates) ==
    \E ft \in templates :
        LET r == insert_function(functions, ft) IN
        /\ functions' = r.functions
        /\ result' = Op("insert_function", ft.key, <<>>, {}, "-", ft.name,
                        IF r.raised
                        THEN Raise("AssertionError", <<>>,
                                   <<"Duplicated function template">>)
                        ELSE RetNone)
        /\ memo' = IF r.raised THEN memo ELSE NoOp
        /\ UNCHANGED <<type_lattice, attributes, id_order>>

CallInsertAttributes(templates) ==
    \E at \in templates :
        LET r == insert_attributes(functions, attributes, at) IN
        /\ attributes' = r.attributes
        /\ result' = Op("insert_attributes", at.key, <<>>, {}, "-", at.name,
                        IF r.raised
                        THEN Raise("AssertionError", <<>>,
                                   <<"Duplicated attributes template">>)
                        ELSE RetNone)
        /\ memo' = IF r.raised THEN memo ELSE NoOp
        /\ UNCHANGED <<type_lattice, functions, id_order>>

\* queries: a set of <<func, args, kws>>.
CallResolveFunctionType(queries, remember) ==
    \E q \in queries :
        \E ids \in Addresses(q[1], q[2], q[3]) :
            LET r == resolve_function_type(Located(q[1], ids),
                                           q[1], q[2], q[3])
            IN
            /\ functions' = Unlocated(r.functions)
            /\ id_order' = Observe(q[1], q[2], q[3], ids)
            /\ result' = Op("resolve_function_type", q[1], q[2], q[3], "-",
                            "-", r.out)
            /\ Remember(remember)
            /\ UNCHANGED <<type_lattice, attributes>>

\* queries: a set of <<value, attr>>.
CallResolveGetattr(queries, remember) ==
    \E q \in queries :
        /\ result' = Op("resolve_getattr", q[1], <<>>, {}, q[2], "-",
                        resolve_getattr(q[1], q[2]))
        /\ Remember(remember)
        /\ UNCHANGED <<type_lattice, functions, attributes, id_order>>

\* queries: a set of <<target, index, value>>.
CallResolveSetitem(queries, remember) ==
    \E q \in queries :
        \E ids \in Addresses("setitem", q, {}) :
            LET r == resolve_setitem(Located("setitem", ids),
                                     q[1], q[2], q[3])
            IN
            /\ functions' = Unlocated(r.functions)
            /\ id_order' = Observe("setitem", q, {}, ids)
            /\ result' = Op("resolve_setitem", "setitem", q, {}, "-", "-",
                            r.out)
            /\ Remember(remember)
            /\ UNCHANGED <<type_lattice, attributes>>

(***************************************************************************)
(* Inputs: the templates an extension registers and the queries asked.     *)
(***************************************************************************)
\* A second template for "+", whose key the builtins already use.
ExtAdd ==
    FunctionTemplate("ExtAdd", "+",
        << signature(int64, <<int32, int32>>) >>, "none", "ExtAdd")

Pair2 ==
    FunctionTemplate("Pair2", "f",
        << signature(int32, <<int32, int32>>),
           signature(int64, <<int64, int64>>) >>, "none", "Pair2")

\* Two of its cases have the same parameter types.
Overlap ==
    FunctionTemplate("Overlap", "f",
        << signature(int64, <<int64, int32>>),
           signature(int32, <<int32, int32>>),
           signature(int32, <<int64, int32>>) >>, "none", "Overlap")

\* Three cases that tie on three int32 arguments, whatever the lattice
\* gives for int32 -> int64.
Triple ==
    FunctionTemplate("Triple", "f",
        << signature(int64, <<int64, int32, int32>>),
           signature(int64, <<int32, int64, int32>>),
           signature(int64, <<int32, int32, int64>>) >>, "none", "Triple")

\* Neither cases nor generic.
Bare == FunctionTemplate("Bare", "g", <<>>, "none", "-")

ArrayAttribute2 ==
    AttributeTemplate("ArrayAttribute2", ArrayClass, {"shape", "dtype"})

Float64ArrayAttribute ==
    AttributeTemplate("Float64ArrayAttribute", array_f64_1d, {"dtype", "ndim"})

RangeAttribute == AttributeTemplate("RangeAttribute", range_type, {"start"})

KwSets == {{}, {"out"}}

TuplesOver(types) ==
    {<<t>> : t \in types} \cup {<<t, u>> : t \in types, u \in types}

IntPairs == {<<int32, int64>>, <<int64, int32>>}

\* Overload resolution over the integer types, and indexing.
CallQueries ==
    ({"+", "f"} \X TuplesOver({int32, int64}) \X {{}})
    \cup ({"+", "f"} \X {<<int32, int32>>, <<int64>>} \X {{"out"}})
    \cup ({"f"} \X {<<int32, int32, int32>>, <<int64, int32, int32>>}
                 \X {{}})
    \cup ({range_type} \X {<<int32>>, <<int64>>, <<int64, int64>>} \X {{}})
    \cup ({"getitem"} \X {<<array_f64_1d, intp>>, <<array_f64_1d, int32>>,
                           <<array_f64_1d>>, <<int32, intp>>} \X {{}})
    \cup ({"getitem"} \X {<<array_f64_1d, intp>>} \X {{"out"}})

NextCall ==
    \/ CallInsertFunction({Pair2, Overlap, Triple})
    \/ CallResolveFunctionType(CallQueries, FALSE)

SpecCall == InitContext(Lattices(IntPairs)) /\ [][NextCall]_vars

RangePairs ==
    {<<range_state32_type, range_state64_type>>,
     <<range_state64_type, range_state32_type>>,
     <<range_iter32_type, range_iter64_type>>,
     <<range_iter64_type, range_iter32_type>>}

\* The iteration protocol on a Context that holds the builtins only.
RangeQueries ==
    {"getiter", "iternext", "itervalid"}
    \X {<<t>> : t \in {range_state32_type, range_state64_type,
                       range_iter32_type, range_iter64_type}}
    \X {{}}

NextRange == CallResolveFunctionType(RangeQueries, FALSE)

SpecRange == InitContext(Lattices(RangePairs)) /\ [][NextRange]_vars

IndexPairs == {<<int32, intp>>}

FunctionQueries ==
    ({"getitem"} \X {<<array_f64_1d, intp>>, <<array_f64_1d, int32>>,
                     <<array_i32_2d, unituple_intp_2>>, <<int32, intp>>}
                \X KwSets)
    \cup ({"setitem"} \X {<<array_f64_1d, intp>>} \X {{}})
    \cup ({"+", "f", "g", "h"} \X {<<int32, int32>>} \X {{}})

GetattrQueries ==
    {array_f64_1d, array_i32_2d, unituple_intp_1, int32}
    \X {"shape", "dtype", "ndim", "T"}

SetitemQueries ==
    {array_f64_1d, array_i32_2d, int32} \X {intp, int32} \X {float64}

\* Registration by an extension, and every entry point.
Next ==
    \/ CallInsertFunction({ExtAdd, Pair2, Overlap, Bare})
    \/ CallInsertAttributes({ArrayAttribute2, Float64ArrayAttribute,
                             RangeAttribute})
    \/ CallResolveFunctionType(FunctionQueries, FALSE)
    \/ CallResolveGetattr(GetattrQueries, FALSE)
    \/ CallResolveSetitem(SetitemQueries, FALSE)

Spec == InitContext(Lattices(IndexPairs)) /\ [][Next]_vars

PureCallQueries ==
    ({"+", "f"} \X {<<int32, int32>>, <<int32, int64>>} \X {{}})
    \cup ({"getitem"} \X {<<array_f64_1d, intp>>} \X {{}})

\* The same entry points, with the observer remembering earlier queries.
NextPure ==
    \/ CallInsertFunction({ExtAdd, Pair2})
    \/ CallInsertAttributes({Float64ArrayAttribute})
    \/ CallResolveFunctionType(PureCallQueries, TRUE)
    \/ CallResolveGetattr({array_f64_1d} \X {"shape", "dtype"}, TRUE)
    \/ CallResolveSetitem({<<array_f64_1d, intp, float64>>}, TRUE)

SpecPure == InitContext(Lattices(IntPairs)) /\ [][NextPure]_vars

(***************************************************************************)
(* Vocabulary of the properties: what the last resolve_function_type call  *)
(* was given, stated from the lattice and the case list alone.             *)
(***************************************************************************)
IsCall == result.op = "resolve_function_type"

\* The last call went to a registered template with a case list.
IsCaseCall ==
    /\ IsCall
    /\ result.key \in DOMAIN functions
    /\ functions[result.key].cases # <<>>

CalledCases == functions[result.key].cases

Matches(case, args) ==
    /\ Len(case.args) = Len(args)
    /\ \A i \in 1..Len(args) : type_distance(args[i], case.args[i]).found

DistAt(case, args, i) == type_distance(args[i], case.args[i]).d

NeedsDemotion(case, args) ==
    \E i \in 1..Len(args) : DistAt(case, args, i) < 0

\* Positions of the case list that match with no demotion, and with one.
UpcastSet ==
    {i \in 1..Len(CalledCases) :
        Matches(CalledCases[i], result.args)
        /\ ~NeedsDemotion(CalledCases[i], result.args)}

DowncastSet ==
    {i \in 1..Len(CalledCases) :
        Matches(CalledCases[i], result.args)
        /\ NeedsDemotion(CalledCases[i], result.args)}

RECURSIVE Total(_, _)
Total(f, S) ==
    IF S = {} THEN 0
    ELSE LET x == CHOOSE y \in S : TRUE IN f[x] + Total(f, S \ {x})

UpcastSum(i) ==
    Total([k \in 1..Len(result.args) |->
              DistAt(CalledCases[i], result.args, k)],
          1..Len(result.args))

DemotionCost(i) ==
    Total([k \in 1..Len(result.args) |->
              IF DistAt(CalledCases[i], result.args, k) < 0
              THEN 0 - DistAt(CalledCases[i], result.args, k) ELSE 0],
          1..Len(result.args))

Ambiguous == result.out.kind = "raise" /\ result.out.err = "TypeError"

\* The signature that GetItem.generic synthesizes for the last call.
GetItemCase ==
    signature(getitem(result.args[1])[1],
              <<result.args[1], getitem(result.args[1])[2]>>)

(***************************************************************************)
(* Properties of overload resolution (SpecCall).                           *)
(***************************************************************************)
\* C1: a call without keyword arguments to a case-list template none of
\* whose cases matches fails with an error, and so does a getitem call
\* whose synthesized signature fails the distance check.
C1_NoMatchRaises ==
    (/\ IsCall
     /\ result.kws = {}
     /\ result.key \in DOMAIN functions
     /\ \/ /\ CalledCases # <<>>
            /\ UpcastSet = {}
            /\ DowncastSet = {}
         \/ /\ CalledCases = <<>>
            /\ functions[result.key].generic = "GetItem"
            /\ Len(result.args) > 0
            /\ has_getitem(result.args[1])
            /\ ~Matches(GetItemCase, result.args))
    => result.out.kind = "raise"

\* C4: when some matching case needs no demotion, a returned Signature is
\* one of the cases that need none, and nothing else is returned; with
\* the cases (int32,int32) and (int64,int64), the arguments (int32,int64),
\* distance(int32,int64) = 1 and a first case that is no upcast match, the
\* (int64,int64) case is returned.
C4_UpcastPrecedence ==
    /\ (IsCaseCall /\ result.kws = {} /\ UpcastSet # {})
       => /\ result.out.kind \in {"signature", "raise"}
          /\ result.out.kind = "signature"
             => \E i \in UpcastSet : CalledCases[i] = result.out.sig
    /\ (/\ IsCaseCall /\ result.kws = {}
        /\ functions[result.key] = Pair2
        /\ result.args = <<int32, int64>>
        /\ <<int32, int64>> \in DOMAIN type_lattice
        /\ type_lattice[<<int32, int64>>] = 1
        /\ 1 \notin UpcastSet)
       => result.out = Ret(Pair2.cases[2])

C4_Witness ==
    /\ IsCaseCall /\ result.kws = {}
    /\ functions[result.key] = Pair2
    /\ result.args = <<int32, int64>>
    /\ UpcastSet = {2} /\ DowncastSet = {1}
    /\ type_lattice[<<int32, int64>>] = 1
    /\ result.out = Ret(signature(int64, <<int64, int64>>))

\* C5: with two or more upcast candidates a case is returned exactly when
\* its sum is strictly less than the sum of every other candidate, and
\* that case is the one returned; otherwise the call fails as ambiguous.
C5_UpcastStrictMinimum ==
    (IsCaseCall /\ result.kws = {} /\ Cardinality(UpcastSet) >= 2)
    => LET best == {i \in UpcastSet :
                      \A j \in UpcastSet \ {i} : UpcastSum(i) < UpcastSum(j)}
       IN IF best # {}
          THEN \E i \in best : result.out = Ret(CalledCases[i])
          ELSE Ambiguous

\* Three upcast candidates, two of them tied at the least sum.
C5_Witness ==
    /\ IsCaseCall /\ result.kws = {}
    /\ Cardinality(UpcastSet) = 3
    /\ \E i, j \in UpcastSet :
          /\ i # j
          /\ UpcastSum(i) = UpcastSum(j)
          /\ \A k \in UpcastSet : UpcastSum(i) <= UpcastSum(k)
          /\ \E k \in UpcastSet : UpcastSum(i) < UpcastSum(k)
    /\ Ambiguous

\* C6: a call with keyword arguments to a template with a case list
\* raises, whatever the positional arguments are.
C6_KeywordsRaise ==
    (IsCaseCall /\ result.kws # {}) => result.out.kind = "raise"

\* Keyword arguments with positional arguments that equal a case.
C6_Witness ==
    /\ IsCaseCall /\ result.kws # {}
    /\ \E i \in 1..Len(CalledCases) : CalledCases[i].args = result.args
    /\ result.out.kind = "raise"
    /\ result.out.err = "AssertionError"

\* C10: a case that needs a demotion is returned only when no case is an
\* upcast match; then a single candidate is returned, among several the
\* one whose cost (the absolute values of its negative entries) is
\* strictly the least is returned, and a tie at the least cost fails as
\* ambiguous, naming the tied cases.
C10_DowncastSelection ==
    (IsCaseCall /\ result.kws = {})
    => /\ (result.out.kind = "signature"
           /\ \E i \in DowncastSet : CalledCases[i] = result.out.sig)
          => UpcastSet = {}
       /\ (UpcastSet = {} /\ DowncastSet # {})
          => LET least == {i \in DowncastSet :
                             \A j \in DowncastSet :
                                DemotionCost(i) <= DemotionCost(j)}
             IN IF Cardinality(least) = 1
                THEN \E i \in least : result.out = Ret(CalledCases[i])
                ELSE /\ Ambiguous
                     /\ Len(result.out.named) = Cardinality(least)
                     /\ {result.out.named[k] :
                            k \in 1..Len(result.out.named)}
                        = {CalledCases[i] : i \in least}

\* Several downcast candidates tied at the least cost, one of them with a
\* promotion in its tuple.
C10_Witness ==
    /\ IsCaseCall /\ result.kws = {}
    /\ UpcastSet = {}
    /\ Cardinality(DowncastSet) >= 2
    /\ \E i \in DowncastSet : \E k \in 1..Len(result.args) :
          DistAt(CalledCases[i], result.args, k) > 0
    /\ Ambiguous
    /\ Len(result.out.named) >= 2

(***************************************************************************)
(* Properties of the registries and of attribute resolution (Spec).        *)
(***************************************************************************)
\* C2: insert_attributes with a key that the attribute registry holds
\* fails and leaves the registered template in place; with a key that the
\* attribute registry does not hold it is accepted.
C2_DuplicateAttributeRejected ==
    [][result'.op = "insert_attributes"
       => IF result'.key \in DOMAIN attributes
          THEN result'.out.kind = "raise" /\ attributes' = attributes
          ELSE /\ result'.out.kind = "None"
               /\ result'.key \in DOMAIN attributes'
               /\ attributes'[result'.key].name = result'.tmpl]_vars

\* C3: insert_function with a key that the function registry holds fails
\* and leaves the registry as it was; no step changes or removes the
\* template registered under a key.
C3_FunctionRegistryStable ==
    [][/\ (result'.op = "insert_function"
           /\ result'.key \in DOMAIN functions)
          => (result'.out.kind = "raise" /\ functions' = functions)
       /\ \A k \in DOMAIN functions :
             k \in DOMAIN functions' /\ functions'[k] = functions[k]]_vars

\* A second template for a registered key has been refused.
C3_Witness ==
    /\ result.op = "insert_function"
    /\ result.out.kind = "raise"
    /\ result.out.err = "AssertionError"
    /\ result.key \in DOMAIN functions
    /\ functions[result.key].name # result.tmpl

\* What the attribute template at answers for the last resolve_getattr.
Served(at) ==
    IF result.attr \in at.handlers
    THEN result.out = RetType(resolve_attr(result.attr, result.key))
    ELSE result.out = Raise("NotImplementedError", <<>>,
                            <<result.key, result.attr>>)

\* C7: resolve_getattr answers from the template registered under the
\* value type itself when there is one, else for a parametric type from
\* the template registered under its category, else it fails; a template
\* without a handler for the name fails with NotImplementedError(value,
\* name).
C7_AttributeLookup ==
    result.op = "resolve_getattr"
    => IF result.key \in DOMAIN attributes
       THEN Served(attributes[result.key])
       ELSE IF is_parametric(result.key)
            THEN IF TypeOf(result.key) \in DOMAIN attributes
                 THEN Served(attributes[TypeOf(result.key)])
                 ELSE result.out.kind = "raise"
            ELSE result.out.kind = "raise"

\* The exact-type template is used though it has no handler for a name
\* that the category template has.
C7_Witness ==
    /\ result.op = "resolve_getattr"
    /\ result.key = array_f64_1d
    /\ result.key \in DOMAIN attributes
    /\ result.attr \notin attributes[result.key].handlers
    /\ result.attr \in attributes[ArrayClass].handlers
    /\ result.out.err = "NotImplementedError"

(***************************************************************************)
(* Purity of resolution (SpecPure).                                        *)
(***************************************************************************)
SameQuery(a, b) ==
    /\ a.op = b.op /\ a.key = b.key /\ a.args = b.args
    /\ a.kws = b.kws /\ a.attr = b.attr

\* C8: a resolve call leaves the registries, the case lists and the
\* lattice as they were, and answers a query remembered since the last
\* registration as it was answered then.
C8_ResolutionIsPure ==
    [][result'.op \in ResolveOps
       => /\ functions' = functions
          /\ attributes' = attributes
          /\ type_lattice' = type_lattice
          /\ (memo'.op \in ResolveOps /\ SameQuery(memo', result'))
             => result'.out = memo'.out]_vars

\* A query asked again that was decided among several upcast candidates.
C8_Witness ==
    /\ IsCaseCall /\ result.kws = {}
    /\ memo.op = "resolve_function_type"
    /\ SameQuery(memo, result)
    /\ memo.out = result.out
    /\ Cardinality(UpcastSet) >= 2
    /\ result.out.kind = "signature"

(***************************************************************************)
(* The iteration protocol on the builtins (SpecRange).                     *)
(***************************************************************************)
CalledWith(func, args) ==
    IsCall /\ result.key = func /\ result.args = args /\ result.kws = {}

\* C9: getiter on range_state32 returns the case that returns
\* range_iter32, itervalid on range_iter32 the case that returns boolean,
\* iternext on range_iter32 the case that returns int32; each is the case
\* whose parameter types are the argument types.
C9_RangeProtocol ==
    /\ CalledWith("getiter", <<range_state32_type>>)
       => result.out
          = Ret(signature(range_iter32_type, <<range_state32_type>>))
    /\ CalledWith("itervalid", <<range_iter32_type>>)
       => result.out = Ret(signature(boolean, <<range_iter32_type>>))
    /\ CalledWith("iternext", <<range_iter32_type>>)
       => result.out = Ret(signature(int32, <<range_iter32_type>>))

\* getiter has answered while the table also leads from range_state32 to
\* the parameter of the other case.
C9_Witness ==
    /\ CalledWith("getiter", <<range_state32_type>>)
    /\ <<range_state32_type, range_state64_type>> \in DOMAIN type_lattice
    /\ type_lattice[<<range_state32_type, range_state64_type>>] > 0
    /\ result.out.kind = "signature"
    /\ result.out.sig.return_type = range_iter32_type

====
